---- MODULE Spec2Model ----
(***************************************************************************)
(* A model of unspaghetti.py: the extraction of story labels and their     *)
(* jumps from Monogatari script files (story_schema) and the rendering of  *)
(* the schema as a Dot document (viz_js).                                  *)
(*                                                                         *)
(* Texts are sequences of tokens.  A token is one character, except for    *)
(* the words the program looks for or compares with, which are kept as     *)
(* units: "monogatari.label", "monogatari.script", "jump", "Start", "end". *)
(* None of these words overlaps itself, and the texts of the model hold    *)
(* them only as whole words, so scanning by token finds the same matches   *)
(* as scanning by character.  A label name or a jump target is the         *)
(* sequence of tokens the program cut out of the text.  File names are     *)
(* sequences of single characters.                                         *)
(***************************************************************************)
EXTENDS Integers, Sequences, FiniteSets, TLC

VARIABLES
    pc,         \* where the run is
    listing,    \* os.listdir(folder): the directory entries, in order
    idx,        \* story_schema: number of entries of listing handled
    schema,     \* the dict of story_schema, in insertion order
    reads,      \* the files read so far, in order
    color,      \* viz_js: the index of the colour next(colors) gave last
    end_nodes,  \* viz_js: the terminal list
    fi,         \* viz_js: index of the file of schema being written
    doc,        \* viz_js: the statements f.write has accepted, in order
    disk,       \* viz.txt as another process finds it
    arg,        \* the text handed to an extraction function
    ret         \* what the function returned

vars == <<pc, listing, idx, schema, reads, color, end_nodes, fi, doc, disk,
          arg, ret>>

(***************************************************************************)
(* Bounds of the model.                                                    *)
(***************************************************************************)
MaxJumps == 2    \* jump directives in one label body
MaxDecls == 2    \* label declarations in one text
MaxBrace == 5    \* length of the texts of braces
MaxLabels == 2   \* label records in a schema handed to viz_js
MaxFiles == 2    \* entries of the directory listing

(***************************************************************************)
(* Tokens.                                                                 *)
(***************************************************************************)
ML == "monogatari.label"
MS == "monogatari.script"
JUMP == "jump"

\* The characters the pattern \w matches, among the tokens of the model.
WordTokens == {"jump", "Start", "end", "A", "B", "C", "x"}

IsWord(c) == c \in WordTokens

Quotes == {"'", "\""}

Min(S) == CHOOSE m \in S : \A n \in S : m <= n

\* Python's s[n:].
Drop(s, n) == SubSeq(s, n + 1, Len(s))

\* Python's s.split(c)[0]: what comes before the first c, all of s without one.
BeforeFirst(s, c) ==
    LET at == {p \in 1..Len(s) : s[p] = c}
    IN IF at = {} THEN s ELSE SubSeq(s, 1, Min(at) - 1)

RECURSIVE Concat(_)
Concat(ss) == IF ss = <<>> THEN <<>> ELSE Head(ss) \o Concat(Tail(ss))

(***************************************************************************)
(* read_file: the contents with every tab and newline removed.             *)
(***************************************************************************)
read_file(contents) == SelectSeq(contents, LAMBDA c : c \notin {"\t", "\n"})

(***************************************************************************)
(* re.findall(monogatari_jump, text) and the j[5:] of each match: the      *)
(* pattern is 'jump \w+', matched leftmost, greedily, without overlap.     *)
(***************************************************************************)
RECURSIVE WordEnd(_, _)
WordEnd(t, p) ==
    IF p + 1 <= Len(t) /\ IsWord(t[p + 1]) THEN WordEnd(t, p + 1) ELSE p

RECURSIVE JumpsFrom(_, _)
JumpsFrom(t, p) ==
    IF p + 2 > Len(t) THEN <<>>
    ELSE IF t[p] = JUMP /\ t[p + 1] = " " /\ IsWord(t[p + 2])
         THEN LET e == WordEnd(t, p + 2)
              IN <<SubSeq(t, p, e)>> \o JumpsFrom(t, e + 1)
         ELSE JumpsFrom(t, p + 1)

\* "jump" and the space are the five characters j[5:] drops.
jump_names(t) ==
    LET jumps == JumpsFrom(t, 1)
    IN [k \in 1..Len(jumps) |-> Drop(jumps[k], 2)]

(***************************************************************************)
(* regular_labels: re.finditer of monogatari\.label\s?\(.*?\]\);? , the    *)
(* matches leftmost, non-greedy, without overlap.                          *)
(***************************************************************************)
\* The last position of the match that starts at p, 0 when there is none.
MatchLabelEnd(t, p) ==
    IF t[p] # ML THEN 0
    ELSE LET q == IF p + 1 <= Len(t) /\ t[p + 1] = " " THEN p + 2 ELSE p + 1
         IN IF q > Len(t) \/ t[q] # "(" THEN 0
            ELSE LET close == {r \in (q + 1)..(Len(t) - 1) :
                                   t[r] = "]" /\ t[r + 1] = ")"}
                 IN IF close = {} THEN 0
                    ELSE LET r == Min(close)
                         IN IF r + 2 <= Len(t) /\ t[r + 2] = ";"
                            THEN r + 2 ELSE r + 1

RECURSIVE RegularFrom(_, _)
RegularFrom(t, p) ==
    IF p > Len(t) THEN <<>>
    ELSE LET e == MatchLabelEnd(t, p)
         IN IF e = 0 THEN RegularFrom(t, p + 1)
            ELSE <<SubSeq(t, p, e)>> \o RegularFrom(t, e + 1)

regular_labels(file_no_spaces) == RegularFrom(file_no_spaces, 1)

(***************************************************************************)
(* parse_regular.  label.group().split('monogatari.label')[1] is what lies *)
(* between the first 'monogatari.label' and the next one (or the end).     *)
(* In the texts of the model the two characters label_content[2:] drops    *)
(* are two one-character tokens.                                           *)
(***************************************************************************)
SplitSecond(g, tok) ==
    LET at == {p \in 1..Len(g) : g[p] = tok}
        p1 == Min(at)
        rest == {p \in at : p > p1}
    IN SubSeq(g, p1 + 1, IF rest = {} THEN Len(g) ELSE Min(rest) - 1)

\* parse_regular scanning the whole match for jumps.
parse_regular_whole(g) ==
    LET label_content == SplitSecond(g, ML)
        label_name == BeforeFirst(Drop(label_content, 2), "'")
    IN [name |-> label_name, jumps |-> jump_names(g)]

parse_regular(g) ==
    LET label_content == SplitSecond(g, ML)
        label_name == BeforeFirst(Drop(label_content, 2), "'")
    IN [name |-> label_name, jumps |-> jump_names(label_content)]

(***************************************************************************)
(* curly_bracket_parse: the loop over the text, then text[first_left:      *)
(* last_right].  Indices are Python's (from 0).                            *)
(***************************************************************************)
RECURSIVE BracketScan(_, _, _, _, _)
BracketScan(text, i, bracket_balance, first_left, last_right) ==
    IF i >= Len(text) THEN <<first_left, last_right>>
    ELSE IF text[i + 1] = "{"
         THEN BracketScan(text, i + 1, bracket_balance + 1,
                          IF bracket_balance = 0 THEN i ELSE first_left,
                          last_right)
    ELSE IF text[i + 1] = "}"
         THEN IF bracket_balance - 1 = 0
              THEN <<first_left, i>>
              ELSE BracketScan(text, i + 1, bracket_balance - 1,
                               first_left, last_right)
    ELSE BracketScan(text, i + 1, bracket_balance, first_left, last_right)

curly_bracket_parse(text) ==
    LET fl == BracketScan(text, 0, 0, 0, 0)
    IN SubSeq(text, fl[1] + 1, fl[2])

(***************************************************************************)
(* start_labels: what follows the first "monogatari.script", its brace     *)
(* span, and re.finditer of (?:\"|\')\w+(?:\"|\')\:\s{0,1}\[.*?\] in it.   *)
(***************************************************************************)
\* str.partition(sep)[2]
PartitionAfter(s, sep) ==
    LET at == {p \in 1..Len(s) : s[p] = sep}
    IN IF at = {} THEN <<>> ELSE Drop(s, Min(at))

\* The last position of \:\s{0,1}\[ matched at p, 0 when it does not match.
SepEnd(t, p) ==
    IF p > Len(t) \/ t[p] # ":" THEN 0
    ELSE IF p + 2 <= Len(t) /\ t[p + 1] = " " /\ t[p + 2] = "[" THEN p + 2
    ELSE IF p + 1 <= Len(t) /\ t[p + 1] = "[" THEN p + 1
    ELSE 0

MatchStartEnd(t, p) ==
    IF ~(t[p] \in Quotes /\ p + 1 <= Len(t) /\ IsWord(t[p + 1])) THEN 0
    ELSE LET w == WordEnd(t, p + 1)
         IN IF ~(w + 1 <= Len(t) /\ t[w + 1] \in Quotes) THEN 0
            ELSE LET s == SepEnd(t, w + 2)
                 IN IF s = 0 THEN 0
                    ELSE LET close == {r \in (s + 1)..Len(t) : t[r] = "]"}
                         IN IF close = {} THEN 0 ELSE Min(close)

RECURSIVE StartFrom(_, _)
StartFrom(t, p) ==
    IF p > Len(t) THEN <<>>
    ELSE LET e == MatchStartEnd(t, p)
         IN IF e = 0 THEN StartFrom(t, p + 1)
            ELSE <<SubSeq(t, p, e)>> \o StartFrom(t, e + 1)

start_labels(script_file_no_spaces) ==
    LET text == PartitionAfter(script_file_no_spaces, MS)
        starting_script == curly_bracket_parse(text)
    IN StartFrom(starting_script, 1)

(***************************************************************************)
(* parse_start.  re.split("\:\s{0,1}\[", g): [0] is what comes before the  *)
(* first separator, [1] what lies between it and the next one (or the end).*)
(***************************************************************************)
parse_start(g) ==
    LET seps == {p \in 1..Len(g) : SepEnd(g, p) # 0}
        p1 == Min(seps)
        e1 == SepEnd(g, p1)
        later == {p \in seps : p > e1}
        part0 == SubSeq(g, 1, p1 - 1)
        part1 == SubSeq(g, e1 + 1, IF later = {} THEN Len(g) ELSE Min(later) - 1)
    IN [name |-> SubSeq(part0, 2, Len(part0) - 1), jumps |-> jump_names(part1)]

(***************************************************************************)
(* The texts handed to the extraction functions.  A declaration is written *)
(* in one of three ways (DeclForms) and has up to MaxJumps jump            *)
(* directives; it either ends in "])" or has a space between the two (so   *)
(* the pattern runs on into the next declaration).  BraceTexts are all the *)
(* short texts of braces.                                                  *)
(***************************************************************************)
DeclForms == {"plain", "space", "dquote"}

Targets == {"B", "C"}

DeclNames == <<"A", "B", "C", "x">>

NameAt(k) == DeclNames[((k - 1) % Len(DeclNames)) + 1]

SeqsUpTo(S, n) == UNION {[1..m -> S] : m \in 0..n}

\* The targets of a label body: some jumps to B, then some to C.
JumpLists ==
    {[k \in 1..(b + c) |-> IF k <= b THEN "B" ELSE "C"] :
        b \in 0..MaxJumps, c \in 0..MaxJumps} \cap SeqsUpTo(Targets, MaxJumps)

QuoteOf(form) == IF form = "dquote" THEN "\"" ELSE "'"

\* The items of a label body: one quoted jump directive for each target.
Items(q, js) == Concat([k \in 1..Len(js) |-> <<q, JUMP, " ", js[k], q, ",">>])

\* monogatari.label('name', ['jump B', ...]); as the file holds it.
Decl(form, name, js, closed) ==
    (IF form = "space" THEN <<ML, " ", "(">> ELSE <<ML, "(">>)
    \o <<QuoteOf(form), name, QuoteOf(form), ",", "[">>
    \o Items(QuoteOf(form), js)
    \o (IF closed THEN <<"]", ")", ";", "\n">> ELSE <<"]", " ", ")", ";", "\n">>)

DeclParams == [js : JumpLists, closed : BOOLEAN]

DeclText(form, ds) ==
    Concat([k \in 1..Len(ds) |-> Decl(form, NameAt(k), ds[k].js, ds[k].closed)])

\* Several declarations in the plain form, up to one in the other forms.
DeclTexts ==
    {DeclText("plain", ds) : ds \in SeqsUpTo(DeclParams, MaxDecls)}
    \cup {DeclText(form, ds) : form \in DeclForms, ds \in SeqsUpTo(DeclParams, 1)}

\* The start block of script.js: monogatari.script({'Start': [...], ...});
\*   "ok"       as the documentation of parse_start writes it
\*   "nested"   an object with a nested object inside the first label's list
\*   "unclosed" the closing brace is missing
\*   "stray"    a closing brace comes first, and the opening one is not closed
StartShapes == {"ok", "nested", "unclosed", "stray"}

StartNames == <<"Start", "x", "A", "B">>

StartNameAt(k) == StartNames[((k - 1) % Len(StartNames)) + 1]

Entry(name, js, nested) ==
    <<"'", name, "'", ":", " ", "[">>
    \o (IF nested THEN <<"{", "'", "x", "'", ":", "{", "}", "}", ",">> ELSE <<>>)
    \o Items("'", js) \o <<"]", ",">>

StartBlock(shape, es) ==
    (IF shape = "stray" THEN <<MS, "(", "}", "{", "{">> ELSE <<MS, "(", "{">>)
    \o Concat([k \in 1..Len(es) |->
                  Entry(StartNameAt(k), es[k], shape = "nested" /\ k = 1)])
    \o (IF shape = "unclosed" THEN <<>>
        ELSE IF shape = "stray" THEN <<"}", "\n">>
        ELSE <<"}", ")", ";", "\n">>)

StartTexts ==
    {StartBlock(shape, es) : shape \in StartShapes, es \in SeqsUpTo(JumpLists, MaxDecls)}

BraceTexts == SeqsUpTo({"{", "}", "a"}, MaxBrace)

\* Texts written out by hand: overlapping and embedded jump directives, a
\* separator inside a start label's list.
ExtraTexts ==
    { <<ML, "(", "'", "A", "'", ",", "[", "'", JUMP, " ", JUMP, " ", "B", "'", ",",
        "'", "x", JUMP, " ", "C", " ", JUMP, " ", "B", "'", "]", ")", ";">>,
      <<MS, "(", "{", "\"", "Start", "\"", ":", "[", "'", "x", ":", "[", JUMP, " ",
        "A", "'", ",", "'", JUMP, " ", "B", "'", "]", "}", ")">> }

TextInputs == DeclTexts \cup StartTexts \cup BraceTexts \cup ExtraTexts

(***************************************************************************)
(* The extraction functions applied to a text, as story_schema applies     *)
(* them to what read_file returns.                                         *)
(***************************************************************************)
RegularNodes(no_spaces) ==
    LET ms == regular_labels(no_spaces)
    IN [k \in 1..Len(ms) |-> parse_regular(ms[k])]

StartNodes(no_spaces) ==
    LET ms == start_labels(no_spaces)
    IN [k \in 1..Len(ms) |-> parse_start(ms[k])]

Idle ==
    /\ listing = <<>> /\ idx = 0 /\ schema = <<>> /\ reads = <<>>
    /\ color = 0 /\ end_nodes = <<>> /\ fi = 0 /\ doc = <<>>
    /\ disk = [exists |-> FALSE, content |-> <<>>]

InitText ==
    /\ pc = "text"
    /\ arg \in TextInputs
    /\ ret = <<>>
    /\ Idle

CallCurly ==
    /\ pc = "text"
    /\ pc' = "curly"
    /\ ret' = curly_bracket_parse(arg)
    /\ UNCHANGED <<listing, idx, schema, reads, color, end_nodes, fi, doc, disk, arg>>

CallRegular ==
    /\ pc = "text"
    /\ pc' = "regular"
    /\ ret' = RegularNodes(read_file(arg))
    /\ UNCHANGED <<listing, idx, schema, reads, color, end_nodes, fi, doc, disk, arg>>

CallStart ==
    /\ pc = "text"
    /\ pc' = "start"
    /\ ret' = StartNodes(read_file(arg))
    /\ UNCHANGED <<listing, idx, schema, reads, color, end_nodes, fi, doc, disk, arg>>

NextText == CallCurly \/ CallRegular \/ CallStart

SpecText == InitText /\ [][NextText]_vars

(***************************************************************************)
(* File names, the mask of story_schema and the cluster name of viz_js.    *)
(***************************************************************************)
LowerCase == <<"a", "b", "c", "d", "e", "f", "g", "h", "i", "j", "k", "l", "m",
               "n", "o", "p", "q", "r", "s", "t", "u", "v", "w", "x", "y", "z">>

UpperCase == <<"A", "B", "C", "D", "E", "F", "G", "H", "I", "J", "K", "L", "M",
               "N", "O", "P", "Q", "R", "S", "T", "U", "V", "W", "X", "Y", "Z">>

Upper(c) ==
    IF \E k \in 1..26 : LowerCase[k] = c
    THEN UpperCase[CHOOSE k \in 1..26 : LowerCase[k] = c] ELSE c

Lower(c) ==
    IF \E k \in 1..26 : UpperCase[k] = c
    THEN LowerCase[CHOOSE k \in 1..26 : UpperCase[k] = c] ELSE c

\* str.capitalize(): the first character upper-cased, the others lower-cased.
capitalize(s) == [k \in 1..Len(s) |-> IF k = 1 THEN Upper(s[k]) ELSE Lower(s[k])]

\* The cluster name with only its first character changed to upper case.
subgraph_name_upper_first(file) ==
    LET stem == SubSeq(file, 1, Len(file) - 3)
    IN [k \in 1..Len(stem) |->
           IF stem[k] = "-" THEN "_" ELSE IF k = 1 THEN Upper(stem[k]) ELSE stem[k]]

\* re.sub("-", "_", file[:-3].capitalize())
subgraph_name(file) ==
    LET cap == capitalize(SubSeq(file, 1, Len(file) - 3))
    IN [k \in 1..Len(cap) |-> IF cap[k] = "-" THEN "_" ELSE cap[k]]

StartsAt(s, p, w) == p + Len(w) - 1 <= Len(s) /\ SubSeq(s, p, p + Len(w) - 1) = w

Excluded == { <<"o", "p", "t", "i", "o", "n", "s">>, <<"m", "a", "i", "n">>,
              <<"s", "t", "o", "r", "a", "g", "e">> }

\* fullmatch(file_mask, file): the name ends in ".js", and before that no
\* character is a newline or starts one of the excluded words.
fullmatch(file) ==
    /\ Len(file) >= 3
    /\ SubSeq(file, Len(file) - 2, Len(file)) = <<".", "j", "s">>
    /\ \A p \in 1..(Len(file) - 3) :
          /\ file[p] # "\n"
          /\ \A w \in Excluded : ~StartsAt(file, p, w)

ScriptJs == <<"s", "c", "r", "i", "p", "t", ".", "j", "s">>

FileNames == { ScriptJs,
               <<"a", "-", "B", ".", "j", "s">>,
               <<"m", "a", "i", "n", ".", "j", "s">>,
               <<"a", ".", "j", "s", "o", "n">> }

\* Sequences without repetition: a directory holds a name once.
Distinct(fs) == \A a, b \in 1..Len(fs) : a # b => fs[a] # fs[b]

Listings == {fs \in SeqsUpTo(FileNames, MaxFiles) : Distinct(fs)}

(***************************************************************************)
(* The statements viz_js writes, one record for each f.write it makes.     *)
(* tabs is the number of tab characters the statement starts with.         *)
(***************************************************************************)
colors == <<"yellow", "green", "pink", "lightblue", "orange", "grey">>

Stmt(kind, tabs, a, b) == [kind |-> kind, tabs |-> tabs, a |-> a, b |-> b]

EndNode == <<"end">>

HeaderStmts == << Stmt("comment", 0, <<>>, <<>>), Stmt("digraph", 0, <<>>, <<>>) >>

\* The jumps to one target merged into one edge.
NodeStmtsMerged(node) ==
    (IF node.name = <<"Start">> THEN <<Stmt("shape_box", 2, <<"Start">>, <<>>)>> ELSE <<>>)
    \o SelectSeq([k \in 1..Len(node.jumps) |->
                     IF \E j \in 1..(k - 1) : node.jumps[j] = node.jumps[k]
                     THEN Stmt("none", 2, <<>>, <<>>)
                     ELSE Stmt("edge", 2, node.name, node.jumps[k])],
                 LAMBDA st : st.kind = "edge")

\* The writes of one pass of "for node in schema[file]".
NodeStmts(node) ==
    (IF node.name = <<"Start">> THEN <<Stmt("shape_box", 2, <<"Start">>, <<>>)>> ELSE <<>>)
    \o (IF node.jumps # <<>>
        THEN [k \in 1..Len(node.jumps) |-> Stmt("edge", 2, node.name, node.jumps[k])]
        ELSE <<>>)

\* Every node taken for an end node, whether it jumps or not.
NodeEndsAlways(node) == <<node.name>>

NodeEnds(node) == IF node.jumps # <<>> THEN <<>> ELSE <<node.name>>

\* The writes of one pass of "for file in schema.keys()".
FileStmts(entry, c) ==
    << Stmt("subgraph", 1, subgraph_name(entry.file), <<>>),
       Stmt("node_style", 2, <<colors[c]>>, <<>>) >>
    \o Concat([k \in 1..Len(entry.labels) |-> NodeStmts(entry.labels[k])])
    \o << Stmt("label", 2, subgraph_name(entry.file), <<>>) >>

FileEnds(entry) == Concat([k \in 1..Len(entry.labels) |-> NodeEnds(entry.labels[k])])

\* The edges to end forgotten.
EndStmtsNoEdges(ends) == << Stmt("end_shape", 1, EndNode, <<>>) >>

\* The writes after the loop over the files.
EndStmts(ends) ==
    [k \in 1..Len(ends) |-> Stmt("edge", 1, ends[k], EndNode)]
    \o << Stmt("end_shape", 1, EndNode, <<>>) >>

\* next(colors) on itertools.cycle
NextColor(c) == (c % Len(colors)) + 1

(***************************************************************************)
(* The run of the program: story_schema(folder), then viz_js(schema).      *)
(***************************************************************************)
\* The jump lists of the files of a run: the first n of B, B, C, B, B, C, ...
PatternAt(k) == IF k % 3 = 0 THEN "C" ELSE "B"

ShortLists == {[k \in 1..n |-> PatternAt(k)] : n \in 0..MaxJumps}

\* What script.js may hold: a start block or none, then a declaration or none.
ScriptTexts ==
    { start \o decl :
        start \in {<<>>} \cup {StartBlock(shape, es) :
                                 shape \in StartShapes, es \in SeqsUpTo(ShortLists, 1)},
        decl \in {<<>>, Decl("plain", "A", <<"C">>, TRUE)} }

\* What another script file may hold; one of them has a start block too.
PlainTexts ==
    {Decl("plain", "A", js, TRUE) : js \in ShortLists}
    \cup { <<>>, Decl("plain", "A", <<"B">>, FALSE),
           StartBlock("ok", <<<<"B">>>>) \o Decl("plain", "A", <<>>, TRUE) }

FileTexts(file) == IF file = ScriptJs THEN ScriptTexts ELSE PlainTexts

\* A document an earlier run left in viz.txt.
OldDoc == <<Stmt("old", 0, <<>>, <<>>)>>

InitialDisks == {[exists |-> FALSE, content |-> <<>>], [exists |-> TRUE, content |-> OldDoc]}

Init ==
    /\ pc = "schema"
    /\ listing \in Listings
    /\ idx = 0
    /\ schema = <<>>
    /\ reads = <<>>
    /\ color = 0
    /\ end_nodes = <<>>
    /\ fi = 0
    /\ doc = <<>>
    /\ disk \in InitialDisks
    /\ arg = <<>>
    /\ ret = <<>>

\* The labels story_schema stores for a file with the given contents.
file_labels(file, contents) ==
    LET no_spaces == read_file(contents)
    IN (IF file = ScriptJs THEN StartNodes(no_spaces) ELSE <<>>)
       \o RegularNodes(no_spaces)

\* A directory entry the mask rejects.
SkipFile ==
    /\ pc = "schema"
    /\ idx < Len(listing)
    /\ ~fullmatch(listing[idx + 1])
    /\ idx' = idx + 1
    /\ UNCHANGED <<pc, listing, schema, reads, color, end_nodes, fi, doc, disk, arg, ret>>

\* An accepted entry, read and parsed.
ReadFile ==
    /\ pc = "schema"
    /\ idx < Len(listing)
    /\ fullmatch(listing[idx + 1])
    /\ \E contents \in FileTexts(listing[idx + 1]) :
          /\ reads' = Append(reads, [file |-> listing[idx + 1], contents |-> contents])
          /\ schema' = Append(schema, [file |-> listing[idx + 1],
                                       labels |-> file_labels(listing[idx + 1], contents)])
    /\ idx' = idx + 1
    /\ UNCHANGED <<pc, listing, color, end_nodes, fi, doc, disk, arg, ret>>

\* The error of a read caught, and the file passed over.
ReadFailPassedOver ==
    /\ pc = "schema"
    /\ idx < Len(listing)
    /\ fullmatch(listing[idx + 1])
    /\ idx' = idx + 1
    /\ UNCHANGED <<pc, listing, schema, reads, color, end_nodes, fi, doc, disk, arg, ret>>

\* open() or read() of an accepted entry raises: nothing catches it.
ReadFail ==
    /\ pc = "schema"
    /\ idx < Len(listing)
    /\ fullmatch(listing[idx + 1])
    /\ pc' = "read_error"
    /\ UNCHANGED <<listing, idx, schema, reads, color, end_nodes, fi, doc, disk, arg, ret>>

\* story_schema returns and viz_js is called.
SchemaReturn ==
    /\ pc = "schema"
    /\ idx = Len(listing)
    /\ pc' = "viz_open"
    /\ UNCHANGED <<listing, idx, schema, reads, color, end_nodes, fi, doc, disk, arg, ret>>

\* open('viz.txt', 'w') creates the file or empties it.
VizOpen ==
    /\ pc = "viz_open"
    /\ pc' = "viz_header"
    /\ disk' = [exists |-> TRUE, content |-> <<>>]
    /\ color' = 0
    /\ end_nodes' = <<>>
    /\ doc' = <<>>
    /\ fi' = 0
    /\ UNCHANGED <<listing, idx, schema, reads, arg, ret>>

VizOpenFail ==
    /\ pc = "viz_open"
    /\ pc' = "write_error"
    /\ UNCHANGED <<listing, idx, schema, reads, color, end_nodes, fi, doc, disk, arg, ret>>

\* The statements the next step of viz_js writes.
Pending ==
    IF pc = "viz_header" THEN HeaderStmts
    ELSE IF fi < Len(schema) THEN FileStmts(schema[fi + 1], NextColor(color))
    ELSE EndStmts(end_nodes)

VizHeader ==
    /\ pc = "viz_header"
    /\ pc' = "viz_files"
    /\ doc' = doc \o Pending
    /\ disk' = [exists |-> TRUE, content |-> doc']
    /\ UNCHANGED <<listing, idx, schema, reads, color, end_nodes, fi, arg, ret>>

\* One pass of the loop over schema.keys().
VizFile ==
    /\ pc = "viz_files"
    /\ fi < Len(schema)
    /\ color' = NextColor(color)
    /\ doc' = doc \o Pending
    /\ end_nodes' = end_nodes \o FileEnds(schema[fi + 1])
    /\ fi' = fi + 1
    /\ disk' = [exists |-> TRUE, content |-> doc']
    /\ UNCHANGED <<pc, listing, idx, schema, reads, arg, ret>>

\* The edges to end, the node end, and the close of the file.
VizEnd ==
    /\ pc = "viz_files"
    /\ fi = Len(schema)
    /\ pc' = "done"
    /\ doc' = doc \o Pending
    /\ disk' = [exists |-> TRUE, content |-> doc']
    /\ UNCHANGED <<listing, idx, schema, reads, color, end_nodes, fi, arg, ret>>

\* A write of the next step raises: what was written before it stays in
\* the file, and nothing removes the file.
VizWriteFail ==
    /\ pc \in {"viz_header", "viz_files"}
    /\ \E n \in 0..(Len(Pending) - 1) :
          /\ doc' = doc \o SubSeq(Pending, 1, n)
          /\ disk' = [exists |-> TRUE, content |-> doc']
    /\ pc' = "write_error"
    /\ UNCHANGED <<listing, idx, schema, reads, color, end_nodes, fi, arg, ret>>

Next ==
    \/ SkipFile \/ ReadFile \/ ReadFail \/ SchemaReturn
    \/ VizOpen \/ VizOpenFail \/ VizHeader \/ VizFile \/ VizEnd \/ VizWriteFail

Spec == Init /\ [][Next]_vars

(***************************************************************************)
(* viz_js on its own: every schema of up to MaxFiles files and MaxLabels   *)
(* label records, the records dealt to the files in turn.  A label jumps   *)
(* up to MaxJumps times to one target (another label, itself, a name no    *)
(* label declares) or once to the name "end".                              *)
(***************************************************************************)
VizNames == {<<"A">>, <<"B">>}

VizTargets == {<<"A">>, <<"B">>, <<"end">>}

VizJumps ==
    {[k \in 1..n |-> t] : t \in VizTargets \ {EndNode}, n \in 0..MaxJumps}
    \cup {<<EndNode>>}

VizLabels == [name : VizNames, jumps : VizJumps]

VizFiles == {fs \in Listings : \A k \in 1..Len(fs) : fullmatch(fs[k])}

\* The labels whose place in the list, counted round the files, is f.
DealtTo(labels, n, f) ==
    LET at == {k \in 1..Len(labels) : ((k - 1) % n) + 1 = f}
        nth(j) == CHOOSE k \in at : Cardinality({m \in at : m < k}) = j - 1
    IN [j \in 1..Cardinality(at) |-> labels[nth(j)]]

Dealt(files, labels) ==
    [f \in 1..Len(files) |->
        [file |-> files[f], labels |-> DealtTo(labels, Len(files), f)]]

\* Schemas written out by hand: file names with upper-case letters and
\* hyphens in several places, the label Start, a name that is "end".
ExtraSchemas ==
    { <<[file |-> <<"m", "y", "-", "F", "i", "l", "e", "-", "X", ".", "j", "s">>,
         labels |-> <<[name |-> <<"Start">>, jumps |-> <<<<"A">>, <<"C">>>>],
                      [name |-> <<"A">>, jumps |-> <<>>]>>]>>,
      <<[file |-> <<"-", "a", "B", ".", "j", "s">>,
         labels |-> <<[name |-> <<"end">>, jumps |-> <<>>]>>],
        [file |-> <<"Z", "Z", "9", ".", "j", "s">>,
         labels |-> <<[name |-> <<"A">>, jumps |-> <<<<"end">>, <<"B">>>>]>>]>>,
      <<[file |-> <<".", "j", "s">>, labels |-> <<>>]>> }

VizSchemas ==
    {Dealt(files, labels) : files \in VizFiles \ {<<>>},
                            labels \in SeqsUpTo(VizLabels, MaxLabels)}
    \cup {<<>>} \cup ExtraSchemas

InitViz ==
    /\ pc = "viz_open"
    /\ schema \in VizSchemas
    /\ listing = [k \in 1..Len(schema) |-> schema[k].file]
    /\ idx = Len(schema)
    /\ reads = <<>>
    /\ color = 0
    /\ end_nodes = <<>>
    /\ fi = 0
    /\ doc = <<>>
    /\ disk = [exists |-> FALSE, content |-> <<>>]
    /\ arg = <<>>
    /\ ret = <<>>

\* The writes of viz_js all succeeding.
NextViz == VizOpen \/ VizHeader \/ VizFile \/ VizEnd

SpecViz == InitViz /\ [][NextViz]_vars

(***************************************************************************)
(* Properties of the extraction functions (SpecText).                      *)
(***************************************************************************)
\* The elements of a finite set of integers, in increasing order.
Sorted(S) ==
    [j \in 1..Cardinality(S) |-> CHOOSE p \in S : Cardinality({q \in S : q < p}) = j - 1]

\* A jump directive is written at p: the word jump, a space, an identifier.
DirectiveAt(t, p) == p + 2 <= Len(t) /\ t[p] = JUMP /\ t[p + 1] = " " /\ IsWord(t[p + 2])

IdentifierAt(t, p) ==
    LET ends == {e \in (p + 2)..Len(t) : \A r \in (p + 2)..e : IsWord(t[r])}
    IN SubSeq(t, p + 2, CHOOSE e \in ends : \A f \in ends : f <= e)

\* The directive at p counts when it is not inside the identifier of a
\* directive that counts and starts before it.
RECURSIVE Counted(_, _)
Counted(t, p) ==
    /\ DirectiveAt(t, p)
    /\ ~\E q \in 1..(p - 2) :
          /\ DirectiveAt(t, q)
          /\ \A r \in (q + 2)..p : IsWord(t[r])
          /\ Counted(t, q)

\* The identifiers of the jump directives of t, in textual order.
Directives(t) ==
    LET at == Sorted({p \in 1..Len(t) : Counted(t, p)})
    IN [j \in 1..Len(at) |-> IdentifierAt(t, at[j])]

\* What a matched span holds before its second "monogatari.label", all of
\* it when there is no second one.
BeforeSecondLabel(m) ==
    LET at == Sorted({p \in 1..Len(m) : m[p] = ML})
    IN IF Len(at) >= 2 THEN SubSeq(m, 1, at[2] - 1) ELSE m

GraphUnsafe == {" ", ";", "{", "}"}

\* C3: every label name parse_regular or parse_start returns is non-empty
\* and holds no space, semicolon or brace, also when the declaration has a
\* space before the parenthesis or quotes the name with double quotes.
C3_NamesAreGraphSafe ==
    pc \in {"regular", "start"} =>
        \A k \in 1..Len(ret) :
            /\ ret[k].name # <<>>
            /\ \A p \in 1..Len(ret[k].name) : ret[k].name[p] \notin GraphUnsafe

\* The first "{" of a text and the "}" that closes it: the first place
\* after it where as many braces have been closed as opened.
FirstBrace(t) == Min({p \in 1..Len(t) : t[p] = "{"})

Closers(t, f) ==
    {m \in (f + 1)..Len(t) :
        /\ t[m] = "}"
        /\ Cardinality({p \in f..m : t[p] = "{"}) = Cardinality({p \in f..m : t[p] = "}"})}

HasBracePair(t) ==
    /\ \E p \in 1..Len(t) : t[p] = "{"
    /\ Closers(t, FirstBrace(t)) # {}

\* C4: for a text that holds a balanced top-level brace pair, the span
\* curly_bracket_parse returns starts at the first "{" and ends at the "}"
\* matching it (the closing brace itself left out, as the slice does).
C4_SpanIsFirstBracePair ==
    (pc = "curly" /\ HasBracePair(arg)) =>
        ret = SubSeq(arg, FirstBrace(arg), Min(Closers(arg, FirstBrace(arg))) - 1)

\* C9, as claimed: the jump targets parse_regular returns for a matched
\* span are the identifiers of all the jump directives of the whole span,
\* in textual order, also those after a second "monogatari.label" in it.
C9_JumpsOfWholeSpan ==
    pc = "regular" =>
        LET ms == regular_labels(read_file(arg))
        IN /\ Len(ret) = Len(ms)
           /\ \A k \in 1..Len(ms) : ret[k].jumps = Directives(ms[k])

\* C9, amended: the jump targets parse_regular returns for a matched span
\* are the identifiers of the jump directives (leftmost, not overlapping,
\* duplicates kept, in textual order) that the span holds before its second
\* "monogatari.label"; the directives after it are dropped.
C9_JumpsBeforeSecondLabel ==
    pc = "regular" =>
        LET ms == regular_labels(read_file(arg))
        IN /\ Len(ret) = Len(ms)
           /\ \A k \in 1..Len(ms) : ret[k].jumps = Directives(BeforeSecondLabel(ms[k]))

\* A matched span runs over two declarations, with jumps in both, and
\* parse_regular has returned its record.
C9_Witness ==
    /\ pc = "regular"
    /\ \E k \in 1..Len(ret) :
          LET m == regular_labels(read_file(arg))[k]
          IN /\ BeforeSecondLabel(m) # m
             /\ Len(ret[k].jumps) >= 1
             /\ Len(Directives(m)) > Len(ret[k].jumps)

(***************************************************************************)
(* Properties of the document viz_js writes (SpecViz).                     *)
(***************************************************************************)
\* The label records of the schema, each with its place.
Records == UNION {{<<f, k>> : k \in 1..Len(schema[f].labels)} : f \in 1..Len(schema)}

RecordAt(r) == schema[r[1]].labels[r[2]]

LabelNames == {RecordAt(r).name : r \in Records}

IsEdge(st, from, to) == st.kind = "edge" /\ st.a = from /\ st.b = to

\* The edge statements of the document that go from a name to end.
EdgesToEnd(n) == Cardinality({p \in 1..Len(doc) : IsEdge(doc[p], n, EndNode)})

\* Those of them written after the clusters.
TerminalEdges(n) ==
    Cardinality({p \in 1..Len(doc) : IsEdge(doc[p], n, EndNode) /\ doc[p].tabs = 1})

InEndNodes(n) == Cardinality({p \in 1..Len(end_nodes) : end_nodes[p] = n})

Terminals(n) == Cardinality({r \in Records : RecordAt(r).name = n /\ RecordAt(r).jumps = <<>>})

JumpsToEnd(n) ==
    Cardinality(UNION {{<<r, j>> : j \in {i \in 1..Len(RecordAt(r).jumps) :
                                              RecordAt(r).jumps[i] = EndNode}} :
                       r \in {q \in Records : RecordAt(q).name = n}})

\* C1, as claimed: a label record has zero jump targets if and only if its
\* name is in end_nodes and the document holds exactly one edge statement
\* from that name to end.
C1_TerminalIffOneEdgeToEnd ==
    pc = "done" =>
        \A r \in Records :
            (RecordAt(r).jumps = <<>>) <=>
                (InEndNodes(RecordAt(r).name) >= 1 /\ EdgesToEnd(RecordAt(r).name) = 1)

\* C1, amended: for every label name, end_nodes holds the name once for
\* each record of that name with zero jump targets, and the document holds
\* one edge statement from the name to end after the clusters for each of
\* them, besides one inside a cluster for each jump to "end" written in a
\* record of that name; so for a name that one record bears and that does
\* not jump to "end", the record has zero jump targets if and only if the
\* name is in end_nodes and the document holds exactly one such edge.
C1_TerminalEdgePerTerminalRecord ==
    pc = "done" =>
        \A n \in LabelNames :
            /\ InEndNodes(n) = Terminals(n)
            /\ TerminalEdges(n) = Terminals(n)
            /\ EdgesToEnd(n) = Terminals(n) + JumpsToEnd(n)

\* Two records bear one name, one with jumps and one without, and the
\* document is written.
C1_Witness ==
    /\ pc = "done"
    /\ \E r1, r2 \in Records :
          /\ r1 # r2
          /\ RecordAt(r1).name = RecordAt(r2).name
          /\ RecordAt(r1).jumps = <<>>
          /\ RecordAt(r2).jumps # <<>>
          /\ EdgesToEnd(RecordAt(r1).name) >= 1

\* The graph of the document: its edge statements, and the names in them.
Edges == {<<doc[p].a, doc[p].b>> : p \in {q \in 1..Len(doc) : doc[q].kind = "edge"}}

Nodes == {e[1] : e \in Edges} \cup {e[2] : e \in Edges}

Succ(v) == {e[2] : e \in {d \in Edges : d[1] = v}}

\* The nodes from which every path reaches end: end itself, and by rounds
\* every node that has successors, all of them already in the set.
RECURSIVE AllPathsReach(_)
AllPathsReach(S) ==
    LET T == S \cup {v \in Nodes : Succ(v) # {} /\ Succ(v) \subseteq S}
    IN IF T = S THEN S ELSE AllPathsReach(T)

\* The nodes a path from v meets, v included, not going on beyond end.
RECURSIVE ReachFrom(_)
ReachFrom(S) ==
    LET T == S \cup UNION {Succ(v) : v \in S \ {EndNode}}
    IN IF T = S THEN S ELSE ReachFrom(T)

OnCycle(v) == v # EndNode /\ v \in ReachFrom(Succ(v))

\* C7, as claimed: every label is a node with at least one outgoing edge
\* statement, and every path that follows edges from a label node reaches
\* the node end, whatever the schema.
C7_EveryPathReachesEnd ==
    pc = "done" =>
        \A n \in LabelNames :
            /\ Succ(n) # {}
            /\ n \in AllPathsReach({EndNode})

\* C7, amended: every label is a node with at least one outgoing edge
\* statement, so a path from a label node stops only at end or at a name
\* that no label declares; every path from a label node reaches end exactly
\* when no path from it enters a cycle or meets an undeclared name other
\* than end.
C7_PathsReachEndUnlessCycleOrUndeclared ==
    pc = "done" =>
        \A n \in LabelNames :
            /\ Succ(n) # {}
            /\ \A v \in ReachFrom({n}) : Succ(v) = {} => (v = EndNode \/ v \notin LabelNames)
            /\ (n \in AllPathsReach({EndNode})) <=>
                  \A v \in ReachFrom({n}) :
                      /\ ~OnCycle(v)
                      /\ (v \in LabelNames \/ v = EndNode)

\* The document is written for a schema in which two labels jump to each
\* other, so that no path from either of them reaches end.
C7_Witness ==
    /\ pc = "done"
    /\ \E n \in LabelNames :
          /\ OnCycle(n)
          /\ Cardinality(ReachFrom({n}) \cap LabelNames) >= 2
          /\ n \notin AllPathsReach({EndNode})

\* The names of the clusters, as the statements of a kind give them.
NamesIn(kind) ==
    LET sts == SelectSeq(doc, LAMBDA st : st.kind = kind)
    IN [k \in 1..Len(sts) |-> sts[k].a]

Stem(file) == SubSeq(file, 1, Len(file) - 3)

\* The name C8 claims: only the first character changed to upper case.
FirstUpper(file) ==
    [k \in 1..Len(Stem(file)) |->
        IF Stem(file)[k] = "-" THEN "_"
        ELSE IF k = 1 THEN Upper(Stem(file)[k]) ELSE Stem(file)[k]]

\* The name str.capitalize gives: the other characters in lower case too.
FirstUpperRestLower(file) ==
    [k \in 1..Len(Stem(file)) |->
        IF Stem(file)[k] = "-" THEN "_"
        ELSE IF k = 1 THEN Upper(Stem(file)[k]) ELSE Lower(Stem(file)[k])]

\* C8, as claimed: the cluster name in the subgraph statement and in the
\* label statement of a file is the file name without its extension, every
\* hyphen replaced by an underscore and only its first character made upper
\* case, the other characters as written.
C8_ClusterNameKeepsCase ==
    pc = "done" =>
        /\ NamesIn("subgraph") = [k \in 1..Len(schema) |-> FirstUpper(schema[k].file)]
        /\ NamesIn("label") = [k \in 1..Len(schema) |-> FirstUpper(schema[k].file)]

\* C8, amended: the cluster name in the subgraph statement and in the label
\* statement of a file is the file name without its last three characters,
\* every hyphen replaced by an underscore, its first character made upper
\* case and every other character made lower case.
C8_ClusterNameLowersRest ==
    pc = "done" =>
        /\ NamesIn("subgraph") = [k \in 1..Len(schema) |-> FirstUpperRestLower(schema[k].file)]
        /\ NamesIn("label") = [k \in 1..Len(schema) |-> FirstUpperRestLower(schema[k].file)]

\* The document is written for a file whose name has a hyphen and an
\* upper-case letter after its first character.
C8_Witness ==
    /\ pc = "done"
    /\ \E k \in 1..Len(schema) :
          /\ \E p \in 2..Len(Stem(schema[k].file)) : Stem(schema[k].file)[p] = "-"
          /\ \E p \in 2..Len(Stem(schema[k].file)) :
                Lower(Stem(schema[k].file)[p]) # Stem(schema[k].file)[p]
          /\ NamesIn("subgraph")[k] # FirstUpper(schema[k].file)

(***************************************************************************)
(* Properties of the whole run (Spec).                                     *)
(***************************************************************************)
\* The spans the two patterns match in the k-th file read, in the order
\* story_schema parses them.
MatchesOf(k) ==
    LET no_spaces == read_file(reads[k].contents)
        starts == IF reads[k].file = ScriptJs THEN start_labels(no_spaces) ELSE <<>>
        regulars == regular_labels(no_spaces)
    IN [j \in 1..Len(starts) |-> [start |-> TRUE, span |-> starts[j]]]
       \o [j \in 1..Len(regulars) |-> [start |-> FALSE, span |-> regulars[j]]]

\* A separator of key and list in a start block: a colon, perhaps a space,
\* an opening bracket.
SeparatorAt(m, p) ==
    /\ p + 1 <= Len(m)
    /\ m[p] = ":"
    /\ \/ m[p + 1] = "["
       \/ p + 2 <= Len(m) /\ m[p + 1] = " " /\ m[p + 2] = "["

\* What a start label holds from its first separator to its second.
BetweenSeparators(m) ==
    LET at == Sorted({p \in 1..Len(m) : SeparatorAt(m, p)})
    IN SubSeq(m, at[1], IF Len(at) >= 2 THEN at[2] - 1 ELSE Len(m))

\* The part of a matched span in which the parser looks for jumps.
Scanned(match) ==
    IF match.start THEN BetweenSeparators(match.span) ELSE BeforeSecondLabel(match.span)

EdgesFrom(n) == Cardinality({p \in 1..Len(doc) : doc[p].kind = "edge" /\ doc[p].a = n})

EdgesFromTo(n, t, tabs) ==
    Cardinality({p \in 1..Len(doc) : IsEdge(doc[p], n, t) /\ doc[p].tabs = tabs})

\* C2, as claimed: for a label whose body holds N jump directives, the
\* document written after extraction holds exactly N edge statements that
\* originate from the label's node.
C2_NEdgesForNJumps ==
    pc = "done" =>
        \A r \in Records :
            EdgesFrom(RecordAt(r).name) = Len(Directives(MatchesOf(r[1])[r[2]].span))

\* The label records that bear the name n, with the jump directives found in
\* the scanned part of each.
Found(r) == Directives(Scanned(MatchesOf(r[1])[r[2]]))

Named(n) == {r \in Records : RecordAt(r).name = n}

\* C2, amended: a label record whose scanned body (the declaration up to a
\* second "monogatari.label", the start label's list up to a second
\* separator) holds N >= 1 jump directives gets exactly N edge statements
\* from its name, one for each occurrence, duplicates not merged; a record
\* with N = 0 gets exactly one, from its name to end, after the clusters;
\* the edge statements that originate from a name are those of the records
\* that bear it, added up.
C2_EdgesPerRecord ==
    pc = "done" =>
        /\ \A k \in 1..Len(schema) : Len(MatchesOf(k)) = Len(schema[k].labels)
        /\ \A n \in LabelNames :
              /\ EdgesFrom(n) =
                    Cardinality(UNION {{<<r, i>> : i \in 1..(IF Found(r) = <<>> THEN 1
                                                            ELSE Len(Found(r)))} :
                                       r \in Named(n)})
              /\ EdgesFromTo(n, EndNode, 1) =
                    Cardinality({r \in Named(n) : Found(r) = <<>>})
              /\ \A t \in Nodes :
                    EdgesFromTo(n, t, 2) =
                        Cardinality(UNION {{<<r, i>> : i \in {j \in 1..Len(Found(r)) :
                                                                Found(r)[j] = t}} :
                                           r \in Named(n)})

\* The document is written for files in which one label jumps twice to the
\* same target and another label does not jump.
C2_Witness ==
    /\ pc = "done"
    /\ \E r \in Records : Len(Found(r)) = 2 /\ Found(r)[1] = Found(r)[2]
    /\ \E r \in Records : Found(r) = <<>>

Accepted == {listing[k] : k \in {j \in 1..Len(listing) : fullmatch(listing[j])}}

WasRead == {reads[k].file : k \in 1..Len(reads)}

\* viz.txt has been opened by this run: created, or emptied.
Opened == disk \notin InitialDisks

\* C5: when reading a selected file fails, the run ends with viz.txt not
\* created, emptied or written; viz.txt is opened only after every accepted
\* file of the directory listing has been read.
C5_OpenOnlyAfterAllRead ==
    /\ pc = "read_error" => (~Opened /\ doc = <<>>)
    /\ (Opened \/ doc # <<>>) => (idx = Len(listing) /\ Accepted \subseteq WasRead)

\* A file has been read, the read of a later one has failed, and the run
\* has ended.
C5_Witness ==
    /\ pc = "read_error"
    /\ Len(reads) >= 1
    /\ Accepted \ WasRead # {}

\* A whole document ends with the statement of the node end.
Complete(content) == content # <<>> /\ content[Len(content)].kind = "end_shape"

\* C6: when the open or a write of viz_js fails, no partial viz.txt is left
\* behind: the file is as it was before the run, or holds a whole document.
C6_NoPartialFile ==
    pc = "write_error" => (disk \in InitialDisks \/ Complete(disk.content))

\* script.js without a monogatari.script call, or with one whose opening
\* brace is never closed.
Malformed(no_spaces) ==
    \/ \A p \in 1..Len(no_spaces) : no_spaces[p] # MS
    \/ LET text == PartitionAfter(no_spaces, MS)
       IN /\ \E p \in 1..Len(text) : text[p] = "{"
          /\ Closers(text, FirstBrace(text)) = {}

\* C10: when script.js has no monogatari.script call, or one whose opening
\* brace is never closed, it yields no start label, its regular labels are
\* recorded all the same, and every other accepted file is processed.
C10_MalformedStartIsContained ==
    /\ \A k \in 1..Len(schema) :
          (schema[k].file = ScriptJs /\ Malformed(read_file(reads[k].contents))) =>
              schema[k].labels = RegularNodes(read_file(reads[k].contents))
    /\ pc \in {"viz_open", "viz_header", "viz_files", "done"} =>
          Accepted = {schema[k].file : k \in 1..Len(schema)}

====
